---- MODULE Spec2Model ----
(***************************************************************************)
(* A model of jetty/get-endpoints.py: the script that enumerates the       *)
(* nomulus clusters of a project, queries every cluster for the load       *)
(* balancer addresses of four services (and the gateway of US clusters),   *)
(* and prints a sorted listing and a Terraform-friendly rendering.         *)
(*                                                                         *)
(* Python strings are TLA+ strings, taken apart with Head, Tail, SubSeq    *)
(* and Len and put together with \o.  A Python dict is an insertion        *)
(* ordered sequence of <<key, value>> pairs, a list is a sequence; a       *)
(* nested value carries a tag t in {"dict", "list", "str", "ip"}.          *)
(***************************************************************************)
EXTENDS Integers, Sequences, FiniteSets

(***************************************************************************)
(* Bounds of the model.                                                    *)
(***************************************************************************)
\* the inventory response lists at most MaxItems clusters
MaxItems == 2
\* one run collects at most MaxIps service addresses
MaxIps == 2
\* a region string handed to get_region_symbol has at most MaxParts parts
MaxParts == 2
\* a dict or list handed to terraform_str has at most MaxLen entries
MaxLen == 2
\* a list handed to the three sorts has at most MaxRecords records
MaxRecords == 3

(***************************************************************************)
(* str: the primitives of Python's str the script relies on.               *)
(***************************************************************************)
\* the characters of the model in code point order
AsciiOrder == "\n \"-.0123456789:=ABCDEFGHIJKLMNOPQRSTUVWXYZ[]_abcdefghijklmnopqrstuvwxyz{}"

ord(c) == CHOOSE i \in 1..Len(AsciiOrder) : SubSeq(AsciiOrder, i, i) = c

RECURSIVE str_lt(_, _)
str_lt(a, b) ==
    IF b = "" THEN FALSE
    ELSE IF a = "" THEN TRUE
    ELSE IF Head(a) = Head(b) THEN str_lt(Tail(a), Tail(b))
    ELSE ord(Head(a)) < ord(Head(b))

startswith(s, prefix) ==
    /\ Len(s) >= Len(prefix)
    /\ SubSeq(s, 1, Len(prefix)) = prefix

RECURSIVE replace(_, _, _)
replace(s, old, new) ==
    IF s = "" THEN ""
    ELSE (IF Head(s) = old THEN new ELSE Head(s)) \o replace(Tail(s), old, new)

isspace(c) == c \in {" ", "\n"}

\* str.split() without arguments: the maximal runs of non-whitespace
RECURSIVE split_from(_, _)
split_from(s, word) ==
    IF s = "" THEN (IF word = "" THEN <<>> ELSE <<word>>)
    ELSE IF isspace(Head(s))
         THEN (IF word = "" THEN <<>> ELSE <<word>>) \o split_from(Tail(s), "")
         ELSE split_from(Tail(s), word \o Head(s))

split(s) == split_from(s, "")

\* str.split(sep) with a one-character separator: empty fields are kept
RECURSIVE split_on_from(_, _, _)
split_on_from(s, sep, field) ==
    IF s = "" THEN <<field>>
    ELSE IF Head(s) = sep
         THEN <<field>> \o split_on_from(Tail(s), sep, "")
         ELSE split_on_from(Tail(s), sep, field \o Head(s))

split_on(s, sep) == split_on_from(s, sep, "")

RECURSIVE join(_, _)
join(sep, parts) ==
    IF parts = <<>> THEN ""
    ELSE IF Len(parts) = 1 THEN parts[1]
    ELSE parts[1] \o sep \o join(sep, Tail(parts))

(***************************************************************************)
(* ipaddress: ip_address, IPv4Address, IPv6Address and their str().  An    *)
(* address is [t |-> "ip", version |-> 4 or 6, words |-> its 4 octets or   *)
(* its 8 hextets].  Scope ids ("%eth0") and IPv6 literals with an embedded *)
(* dotted quad are outside the model's inputs.                             *)
(***************************************************************************)
DecDigits == "0123456789"

HexDigits == "0123456789abcdef"

HexUpper == "0123456789ABCDEF"

isdigit(c) == \E i \in 1..10 : SubSeq(DecDigits, i, i) = c

ishex(c) == \E i \in 1..16 : SubSeq(HexDigits, i, i) = c \/ SubSeq(HexUpper, i, i) = c

digit_value(c) ==
    CHOOSE v \in 0..15 : SubSeq(HexDigits, v + 1, v + 1) = c \/ SubSeq(HexUpper, v + 1, v + 1) = c

RECURSIVE all_digits(_)
all_digits(s) == s = "" \/ (isdigit(Head(s)) /\ all_digits(Tail(s)))

RECURSIVE all_hex(_)
all_hex(s) == s = "" \/ (ishex(Head(s)) /\ all_hex(Tail(s)))

\* int(s, base) of a non-empty string of digits
RECURSIVE int_of(_, _)
int_of(s, base) ==
    IF s = "" THEN 0
    ELSE int_of(SubSeq(s, 1, Len(s) - 1), base) * base + digit_value(SubSeq(s, Len(s), Len(s)))

\* '%d' % n and '%x' % n
RECURSIVE format_int(_, _)
format_int(n, base) ==
    IF n < base THEN SubSeq(HexDigits, n + 1, n + 1)
    ELSE format_int(n \div base, base) \o SubSeq(HexDigits, (n % base) + 1, (n % base) + 1)

\* IPv4Address._parse_octet: decimal digits only, at most three, no leading
\* zero, at most 255
octet_ok(o) ==
    /\ o # ""
    /\ all_digits(o)
    /\ Len(o) <= 3
    /\ (o = "0" \/ Head(o) # "0")
    /\ int_of(o, 10) <= 255

NoAddress == [ok |-> FALSE]

IPv4Address(s) ==
    LET octets == split_on(s, ".")
    IN  IF Len(octets) = 4 /\ \A i \in 1..4 : octet_ok(octets[i])
        THEN [ok |-> TRUE,
              ip |-> [t |-> "ip", version |-> 4,
                      words |-> [i \in 1..4 |-> int_of(octets[i], 10)]]]
        ELSE NoAddress

\* IPv6Address._parse_hextet
hextet_ok(h) == h # "" /\ all_hex(h) /\ Len(h) <= 4

IPv6Address(s) ==
    LET parts == split_on(s, ":")
        n     == Len(parts)
        skips == {i \in 2..(n - 1) : parts[i] = ""}
    IN  IF n < 3 \/ n > 9 \/ Cardinality(skips) > 1 THEN NoAddress
        ELSE IF skips # {}
        THEN LET skip_index == CHOOSE i \in skips : TRUE
                 parts_hi   == IF parts[1] = "" THEN skip_index - 2 ELSE skip_index - 1
                 parts_lo   == IF parts[n] = "" THEN n - skip_index - 1 ELSE n - skip_index
                 lead_ok    == parts[1] # "" \/ parts_hi = 0
                 trail_ok   == parts[n] # "" \/ parts_lo = 0
                 skipped    == 8 - (parts_hi + parts_lo)
             IN  IF /\ lead_ok
                    /\ trail_ok
                    /\ skipped >= 1
                    /\ \A i \in 1..parts_hi : hextet_ok(parts[i])
                    /\ \A i \in (n - parts_lo + 1)..n : hextet_ok(parts[i])
                 THEN [ok |-> TRUE,
                       ip |-> [t |-> "ip", version |-> 6,
                               words |-> [i \in 1..8 |->
                                   IF i <= parts_hi THEN int_of(parts[i], 16)
                                   ELSE IF i <= parts_hi + skipped THEN 0
                                   ELSE int_of(parts[n - 8 + i], 16)]]]
                 ELSE NoAddress
        ELSE IF n = 8 /\ \A i \in 1..8 : hextet_ok(parts[i])
             THEN [ok |-> TRUE,
                   ip |-> [t |-> "ip", version |-> 6,
                           words |-> [i \in 1..8 |-> int_of(parts[i], 16)]]]
             ELSE NoAddress

\* ipaddress.ip_address: IPv4 first, then IPv6, else ValueError (ok = FALSE)
ip_address(s) == IF IPv4Address(s).ok THEN IPv4Address(s) ELSE IPv6Address(s)

\* IPv6Address._compress_hextets: the first longest run of two or more zero
\* hextets becomes "::"
compress_hextets(h) ==
    LET run(i) == IF h[i] # "0" THEN 0
                  ELSE (CHOOSE k \in 1..(9 - i) :
                           /\ \A j \in i..(i + k - 1) : h[j] = "0"
                           /\ (i + k = 9 \/ h[i + k] # "0"))
        best   == CHOOSE b \in 0..8 :
                     (\E i \in 1..8 : run(i) = b) /\ \A i \in 1..8 : run(i) <= b
        start  == CHOOSE i \in 1..8 : run(i) = best /\ \A j \in 1..(i - 1) : run(j) < best
        end    == start + best
    IN  IF best > 1
        THEN (IF start = 1 THEN <<"">> ELSE <<>>)
             \o SubSeq(h, 1, start - 1) \o <<"">> \o SubSeq(h, end, 8)
             \o (IF end = 9 THEN <<"">> ELSE <<>>)
        ELSE h

\* str() of an address
ip_str(ip) ==
    IF ip.version = 4
    THEN join(".", [i \in 1..4 |-> format_int(ip.words[i], 10)])
    ELSE join(":", compress_hextets([i \in 1..8 |-> format_int(ip.words[i], 16)]))

(***************************************************************************)
(* dict and list values.                                                   *)
(***************************************************************************)
EmptyDict == [t |-> "dict", items |-> <<>>]

List(elems) == [t |-> "list", items |-> elems]

Str(s) == [t |-> "str", s |-> s]

dict_has(d, k) == \E i \in 1..Len(d.items) : d.items[i][1] = k

dict_get(d, k) == d.items[CHOOSE i \in 1..Len(d.items) : d.items[i][1] = k][2]

\* d[k] = v: an existing key keeps its place, a new key goes last
dict_set(d, k, v) ==
    IF dict_has(d, k)
    THEN [d EXCEPT !.items =
             [i \in 1..Len(d.items) |-> IF d.items[i][1] = k THEN <<k, v>> ELSE d.items[i]]]
    ELSE [d EXCEPT !.items = Append(d.items, <<k, v>>)]

(***************************************************************************)
(* get_region_symbol, IP, terraform_str.                                   *)
(***************************************************************************)
\* the mutant of get_region_symbol: a match anywhere in the string
RECURSIVE contains(_, _)
contains(s, part) ==
    IF startswith(s, part) THEN TRUE
    ELSE IF s = "" THEN FALSE
    ELSE contains(Tail(s), part)

get_region_symbol_anywhere(region) ==
    IF contains(region, "us") THEN "amer"
    ELSE IF contains(region, "europe") THEN "emea"
    ELSE IF contains(region, "asia") THEN "apac"
    ELSE "other"

get_region_symbol(region) ==
    IF startswith(region, "us") THEN "amer"
    ELSE IF startswith(region, "europe") THEN "emea"
    ELSE IF startswith(region, "asia") THEN "apac"
    ELSE "other"

IP(service, region, address) ==
    [service |-> service, region |-> region, address |-> address]

is_ipv6(self) == self.address.version = 6

IP_str(self) == self.service \o " " \o self.region \o ": " \o ip_str(self.address)

\* str(item) of a value that is neither a dict nor a list
scalar_str(item) == IF item.t = "ip" THEN ip_str(item) ELSE item.s

\* the mutant of terraform_str: the separator also before the first element
RECURSIVE terraform_str_separator(_)
terraform_str_separator(item) ==
    LET dict_lines[i \in 0..Len(item.items)] ==
            IF i = 0 THEN ""
            ELSE dict_lines[i - 1] \o item.items[i][1] \o " = "
                 \o terraform_str_separator(item.items[i][2]) \o "\n"
        list_elems[i \in 0..Len(item.items)] ==
            IF i = 0 THEN ""
            ELSE list_elems[i - 1] \o ", " \o terraform_str_separator(item.items[i])
    IN  IF item.t = "dict" THEN "{\n" \o dict_lines[Len(item.items)] \o "}"
        ELSE IF item.t = "list" THEN "[" \o list_elems[Len(item.items)] \o "]"
        ELSE "\"" \o scalar_str(item) \o "\""

RECURSIVE terraform_str(_)
terraform_str(item) ==
    LET dict_lines[i \in 0..Len(item.items)] ==
            IF i = 0 THEN ""
            ELSE dict_lines[i - 1] \o item.items[i][1] \o " = "
                 \o terraform_str(item.items[i][2]) \o "\n"
        list_elems[i \in 0..Len(item.items)] ==
            IF i = 0 THEN ""
            ELSE list_elems[i - 1] \o (IF i # 1 THEN ", " ELSE "")
                 \o terraform_str(item.items[i])
    IN  IF item.t = "dict" THEN "{\n" \o dict_lines[Len(item.items)] \o "}"
        ELSE IF item.t = "list" THEN "[" \o list_elems[Len(item.items)] \o "]"
        ELSE "\"" \o scalar_str(item) \o "\""

(***************************************************************************)
(* list.sort(key=...): a stable sort by one key.                           *)
(***************************************************************************)
\* key(a) < key(b) for attrgetter('region'), methodcaller('is_ipv6') and
\* attrgetter('service')
key_lt(key, a, b) ==
    IF key = "region" THEN str_lt(a.region, b.region)
    ELSE IF key = "is_ipv6" THEN ~is_ipv6(a) /\ is_ipv6(b)
    ELSE str_lt(a.service, b.service)

\* x goes before the first element that is greater than x
insert_sorted(sorted, x, key) ==
    LET later == {i \in 1..Len(sorted) : key_lt(key, x, sorted[i])}
        pos   == IF later = {} THEN Len(sorted) + 1
                 ELSE CHOOSE i \in later : \A j \in later : i <= j
    IN  SubSeq(sorted, 1, pos - 1) \o <<x>> \o SubSeq(sorted, pos, Len(sorted))

RECURSIVE sort(_, _)
sort(list, key) ==
    IF list = <<>> THEN <<>>
    ELSE insert_sorted(sort(SubSeq(list, 1, Len(list) - 1), key), list[Len(list)], key)

\* the mutant of sorted3: the sorts in the order of the keys' priority
sorted3_priority_first(list) == sort(sort(sort(list, "service"), "is_ipv6"), "region")

\* lines 152-154: by region, then by version, then by service
sorted3(list) == sort(sort(sort(list, "region"), "is_ipv6"), "service")

(***************************************************************************)
(* The run of the script.                                                  *)
(*                                                                         *)
(* The external world is the active kubectl context ctx and what the       *)
(* commands print.  log is the sequence of the commands run_command has   *)
(* run, queries the sequence of get_endpoints calls with what each         *)
(* returned, stdout the sequence of print calls.  exc is the exception in  *)
(* flight ("none" when there is none).  arg and ret are the argument and   *)
(* the result of a function that is checked on its own.                    *)
(***************************************************************************)
VARIABLES pc, argv, ctx, ctx0, log, queries, stdout, exc,
          project, clusters, ci, self_context,
          si, map_key, eps, map_key_with_iptype, ips, res,
          arg, ret

vars == <<pc, argv, ctx, ctx0, log, queries, stdout, exc,
          project, clusters, ci, self_context,
          si, map_key, eps, map_key_with_iptype, ips, res,
          arg, ret>>

\* the argument and the result of a pure function checked on its own
pure_vars == <<arg, ret>>

\* the mutant of Services: the canaries after the two services
ServicesCanariesLast == <<"whois", "epp", "whois-canary", "epp-canary">>

\* line 133
Services == <<"whois", "whois-canary", "epp", "epp-canary">>

\* ---- the inputs of a run ----
Argvs == { <<"get-endpoints.py">>,
           <<"get-endpoints.py", "proj">>,
           <<"get-endpoints.py", "proj", "extra">> }

Contexts == {"minikube"}

InventoryNames == {"nomulus-cluster", "nomulus-cluster-b", "proxy-cluster"}

InventoryRegions == {"us-central1", "europe-west1"}

InventoryItems == [name : InventoryNames, location : InventoryRegions]

ItemSeqs(n) == UNION {[1..k -> InventoryItems] : k \in 0..n}

\* what `gcloud container clusters list --format=json` prints: a JSON list of
\* clusters, or something json.loads rejects
Inventories ==
    {[json |-> TRUE, items |-> items] : items \in ItemSeqs(MaxItems)}
    \cup {[json |-> FALSE, items |-> <<>>]}

\* what `kubectl get services/<service> -o jsonpath=...` prints
ServiceOutputs ==
    { "",
      "10.0.0.1",
      "2001:DB8::1",
      "10.0.0.1 10.0.0.2",
      "10.0.0.1 Error",
      "Error from server (NotFound)\n" }

\* what `kubectl get gateways.gateway.networking.k8s.io/nomulus ...` prints
GatewayOutputs == {"", "34.1.1.1 34.2.2.2", "2600:1901::3", "Error from server (NotFound)\n"}

\* ---- the commands ----
Query(resource, service, content) ==
    [resource |-> resource, service |-> service, content |-> content]

current_context_cmd == "kubectl config current-context"

use_context_cmd(context) == "kubectl config use-context " \o context

get_credentials_cmd(cluster, proj) ==
    "gcloud container fleet memberships get-credentials " \o cluster \o " --project " \o proj

clusters_list_cmd(proj) ==
    "gcloud container clusters list --project " \o proj \o " --format=json"

get_cmd(resource, service, jsonpath) ==
    "kubectl get " \o resource \o "/" \o service \o " -o jsonpath=" \o jsonpath

ServicePath == "{.status.loadBalancer.ingress[*].ip}"

GatewayPath == "{.status.addresses[*].value}"

GatewayResource == "gateways.gateway.networking.k8s.io"

\* the context `gcloud ... get-credentials` makes active
cluster_context(cluster, proj) == "connectgateway_" \o proj \o "_global_" \o cluster

\* the context `kubectl config use-context <name>` makes active: the shell
\* drops the line break that ends the captured output
used_context(name, current) == IF split(name) = <<>> THEN current ELSE split(name)[1]

\* get_clusters: the clusters whose name starts with nomulus-cluster, by name
RECURSIVE get_clusters_from(_, _)
get_clusters_from(content, table) ==
    IF content = <<>> THEN table
    ELSE get_clusters_from(
             Tail(content),
             IF startswith(Head(content).name, "nomulus-cluster")
             THEN dict_set(table, Head(content).name, Head(content).location)
             ELSE table)

get_clusters(content) == get_clusters_from(content, EmptyDict)

region == clusters.items[ci][2]

\* ---- the state after construction ----
Init ==
    /\ pc = "start"
    /\ argv \in Argvs
    /\ ctx \in Contexts
    /\ ctx0 = ctx
    /\ log = <<>>
    /\ queries = <<>>
    /\ stdout = <<>>
    /\ exc = "none"
    /\ project = ""
    /\ clusters = EmptyDict
    /\ ci = 0
    /\ self_context = ""
    /\ si = 1
    /\ map_key = ""
    /\ eps = <<>>
    /\ map_key_with_iptype = ""
    /\ ips = <<>>
    /\ res = EmptyDict
    /\ arg = ""
    /\ ret = ""

\* __main__, lines 124-127: the usage check and the first print
Start ==
    /\ pc = "start"
    /\ IF Len(argv) # 2
       THEN /\ exc' = "ValueError"
            /\ pc' = "aborted"
            /\ UNCHANGED <<project, stdout>>
       ELSE /\ project' = argv[2]
            /\ stdout' = Append(stdout, "Project: " \o argv[2])
            /\ pc' = "get_clusters"
            /\ UNCHANGED exc
    /\ UNCHANGED <<queries, argv, ctx, ctx0, log, clusters, ci, self_context,
                   si, map_key, eps, map_key_with_iptype, ips, res>>
    /\ UNCHANGED pure_vars

\* __main__, lines 128-130: clusters = get_clusters(project)
GetClusters ==
    /\ pc = "get_clusters"
    /\ \E inv \in Inventories :
          /\ log' = Append(log, clusters_list_cmd(project))
          /\ IF inv.json
             THEN /\ clusters' = get_clusters(inv.items)
                  /\ pc' = "loop"
                  /\ UNCHANGED exc
             ELSE /\ exc' = "JSONDecodeError"
                  /\ pc' = "aborted"
                  /\ UNCHANGED clusters
    /\ UNCHANGED <<queries, argv, ctx, ctx0, stdout, project, ci, self_context,
                   si, map_key, eps, map_key_with_iptype, ips, res>>
    /\ UNCHANGED pure_vars

\* the next cluster of the loop and UseCluster.__enter__: capture the active
\* context, then switch to the cluster
EnterCluster ==
    /\ pc = "loop"
    /\ ci < Len(clusters.items)
    /\ ci' = ci + 1
    /\ LET captured == ctx \o "\n"
           name     == clusters.items[ci + 1][1]
       IN  /\ self_context' = captured
           /\ log' = log \o <<current_context_cmd, get_credentials_cmd(name, project)>>
           /\ ctx' = cluster_context(name, project)
    /\ si' = 1
    /\ pc' = "service"
    /\ UNCHANGED <<queries, argv, ctx0, stdout, exc, project, clusters,
                   map_key, eps, map_key_with_iptype, ips, res>>
    /\ UNCHANGED pure_vars

\* the bound on the addresses of a run: a response is taken when the
\* addresses it adds fit, or when it adds none
within_bound(content) ==
    IF split(content) = <<>> THEN TRUE
    ELSE IF ~ip_address(split(content)[1]).ok THEN TRUE
    ELSE Len(ips) + Len(split(content)) <= MaxIps

\* lines 133-136: the next service, its map_key and its get_endpoints call
QueryService ==
    /\ pc = "service"
    /\ si <= Len(Services)
    /\ map_key' = replace(Services[si], "-", "_")
    /\ \E content \in ServiceOutputs :
          /\ within_bound(content)
          /\ log' = Append(log, get_cmd("services", Services[si], ServicePath))
          /\ queries' = Append(queries, Query("services", Services[si], content))
          /\ eps' = split(content)
          /\ IF split(content) = <<>>
             THEN si' = si + 1 /\ pc' = "service"
             ELSE si' = si /\ pc' = "address"
    /\ UNCHANGED <<argv, ctx, ctx0, stdout, exc, project, clusters, ci, self_context,
                   map_key_with_iptype, ips, res>>
    /\ UNCHANGED pure_vars

\* the mutant of key_with_iptype: the suffixes the wrong way round
key_with_iptype_swapped(key, ip) ==
    IF ip.version = 4 THEN key \o "_ipv6" ELSE key \o "_ipv4"

\* lines 138-141: the key of an address of the service
key_with_iptype(key, ip) == IF ip.version = 4 THEN key \o "_ipv4" ELSE key \o "_ipv6"

\* the mutant of insert: the address joins the ones of its key and symbol
insert_accumulate(table, key, symbol, ip) ==
    LET table1 == IF dict_has(table, key) THEN table ELSE dict_set(table, key, EmptyDict)
        slot   == dict_get(table1, key)
        before == IF dict_has(slot, symbol) THEN dict_get(slot, symbol).items ELSE <<>>
    IN  dict_set(table1, key, dict_set(slot, symbol, List(Append(before, ip))))

\* lines 142-144: the address becomes the only one of its key and symbol
insert(table, key, symbol, ip) ==
    LET table1 == IF dict_has(table, key) THEN table ELSE dict_set(table, key, EmptyDict)
    IN  dict_set(table1, key, dict_set(dict_get(table1, key), symbol, List(<<ip>>)))

\* lines 137-145: one address of the service's endpoints
ProcessAddress ==
    /\ pc = "address"
    /\ eps # <<>>
    /\ LET parsed == ip_address(Head(eps))
           ip     == parsed.ip
           key    == key_with_iptype(map_key, ip)
       IN  IF ~parsed.ok
           THEN /\ exc' = "ValueError"
                /\ pc' = "exit"
                /\ UNCHANGED <<eps, si, map_key_with_iptype, ips, res>>
           ELSE /\ map_key_with_iptype' = key
                /\ res' = insert(res, key, get_region_symbol(region), ip)
                /\ ips' = Append(ips, IP(Services[si], get_region_symbol(region), ip))
                /\ eps' = Tail(eps)
                /\ IF Tail(eps) = <<>>
                   THEN si' = si + 1 /\ pc' = "service"
                   ELSE si' = si /\ pc' = "address"
                /\ UNCHANGED exc
    /\ UNCHANGED <<queries, argv, ctx, ctx0, log, stdout, project, clusters, ci, self_context,
                   map_key>>
    /\ UNCHANGED pure_vars

\* lines 146-147: a cluster outside the US leaves the block
Continue ==
    /\ pc = "service"
    /\ si > Len(Services)
    /\ ~startswith(region, "us")
    /\ pc' = "exit"
    /\ UNCHANGED <<queries, argv, ctx, ctx0, log, stdout, exc, project, clusters, ci,
                   self_context, si, map_key, eps, map_key_with_iptype, ips, res>>
    /\ UNCHANGED pure_vars

\* the mutant of store_https_ip: the first gateway address stays
store_https_ip_once(table, ip) ==
    IF dict_has(table, "https_ip") THEN table ELSE dict_set(table, "https_ip", ip)

\* line 151: the gateway address of the cluster replaces the one stored
store_https_ip(table, ip) == dict_set(table, "https_ip", ip)

\* lines 148-151: the gateway of a US cluster
QueryGateway ==
    /\ pc = "service"
    /\ si > Len(Services)
    /\ startswith(region, "us")
    /\ \E content \in GatewayOutputs :
          /\ log' = Append(log, get_cmd(GatewayResource, "nomulus", GatewayPath))
          /\ queries' = Append(queries, Query(GatewayResource, "nomulus", content))
          /\ IF split(content) = <<>>
             THEN /\ exc' = "IndexError"
                  /\ UNCHANGED <<stdout, res>>
             ELSE LET ip == split(content)[1]
                  IN  /\ stdout' = Append(stdout, "nomulus: " \o ip)
                      /\ IF ip_address(ip).ok
                         THEN /\ res' = store_https_ip(res, ip_address(ip).ip)
                              /\ UNCHANGED exc
                         ELSE /\ exc' = "ValueError"
                              /\ UNCHANGED res
    /\ pc' = "exit"
    /\ UNCHANGED <<argv, ctx, ctx0, project, clusters, ci, self_context,
                   si, map_key, eps, map_key_with_iptype, ips>>
    /\ UNCHANGED pure_vars

\* the mutant of ExitCluster: the restoration is left out when the block
\* raised
ExitClusterNoFinally ==
    /\ pc = "exit"
    /\ IF exc = "none"
       THEN /\ log' = Append(log, use_context_cmd(self_context))
            /\ ctx' = used_context(self_context, ctx)
            /\ pc' = "loop"
       ELSE /\ pc' = "aborted"
            /\ UNCHANGED <<log, ctx>>
    /\ UNCHANGED <<queries, argv, ctx0, stdout, exc, project, clusters, ci, self_context,
                   si, map_key, eps, map_key_with_iptype, ips, res>>
    /\ UNCHANGED pure_vars

\* the mutant of ExitCluster: __exit__ returns True, the exception is dropped
ExitClusterSwallows ==
    /\ pc = "exit"
    /\ log' = Append(log, use_context_cmd(self_context))
    /\ ctx' = used_context(self_context, ctx)
    /\ pc' = "loop"
    /\ exc' = "none"
    /\ UNCHANGED <<queries, argv, ctx0, stdout, project, clusters, ci, self_context,
                   si, map_key, eps, map_key_with_iptype, ips, res>>
    /\ UNCHANGED pure_vars

\* PreserveContext.__exit__: restore the captured context; it returns None,
\* so an exception in flight goes on
ExitCluster ==
    /\ pc = "exit"
    /\ log' = Append(log, use_context_cmd(self_context))
    /\ ctx' = used_context(self_context, ctx)
    /\ pc' = IF exc = "none" THEN "loop" ELSE "aborted"
    /\ UNCHANGED <<queries, argv, ctx0, stdout, exc, project, clusters, ci, self_context,
                   si, map_key, eps, map_key_with_iptype, ips, res>>
    /\ UNCHANGED pure_vars

\* lines 152-158: the three sorts and the two listings
SortAndPrint ==
    /\ pc = "loop"
    /\ ci = Len(clusters.items)
    /\ LET sorted == sorted3(ips)
       IN  /\ ips' = sorted
           /\ stdout' = stdout \o [i \in 1..Len(sorted) |-> IP_str(sorted[i])]
                        \o <<"Terraform friendly output:", terraform_str(res)>>
    /\ pc' = "done"
    /\ UNCHANGED <<queries, argv, ctx, ctx0, log, exc, project, clusters, ci, self_context,
                   si, map_key, eps, map_key_with_iptype, res>>
    /\ UNCHANGED pure_vars

Next ==
    \/ Start
    \/ GetClusters
    \/ EnterCluster
    \/ QueryService
    \/ ProcessAddress
    \/ Continue
    \/ QueryGateway
    \/ ExitCluster
    \/ SortAndPrint

Spec == Init /\ [][Next]_vars

(***************************************************************************)
(* The pure functions on their own: the argument is drawn from a bounded   *)
(* set, one action applies the function.                                   *)
(***************************************************************************)
Idle(at) ==
    /\ pc = at
    /\ argv = <<"get-endpoints.py", "proj">>
    /\ ctx \in Contexts
    /\ ctx0 = ctx
    /\ log = <<>>
    /\ queries = <<>>
    /\ stdout = <<>>
    /\ exc = "none"
    /\ project = ""
    /\ clusters = EmptyDict
    /\ ci = 0
    /\ self_context = ""
    /\ si = 1
    /\ map_key = ""
    /\ eps = <<>>
    /\ map_key_with_iptype = ""
    /\ ips = <<>>
    /\ res = EmptyDict
    /\ ret = ""

RECURSIVE concat(_)
concat(parts) == IF parts = <<>> THEN "" ELSE Head(parts) \o concat(Tail(parts))

\* ---- get_region_symbol ----
RegionParts == {"us", "europe", "asia", "u", "US", "Europe", "-east1", "eu"}

RegionStrings == {concat(parts) : parts \in UNION {[1..k -> RegionParts] : k \in 0..MaxParts}}

InitSymbol == Idle("symbol") /\ arg \in RegionStrings

ApplySymbol ==
    /\ pc = "symbol"
    /\ ret' = get_region_symbol(arg)
    /\ pc' = "returned"
    /\ UNCHANGED <<arg, argv, ctx, ctx0, log, queries, stdout, exc, project, clusters, ci,
                   self_context, si, map_key, eps, map_key_with_iptype, ips, res>>

SpecSymbol == InitSymbol /\ [][ApplySymbol]_vars

\* ---- terraform_str ----
Scalars == {Str("1"), Str("2")}

Leaves == {Str("1"), ip_address("2001:DB8::1").ip}

Keys == {"a", "b"}

ListsOf(elems, n) == {List(items) : items \in UNION {[1..k -> elems] : k \in 0..n}}

\* the dicts of at most n entries: the keys of a dict differ
DictsOf(elems, n) ==
    {[t |-> "dict", items |-> items] :
        items \in {its \in UNION {[1..k -> Keys \X elems] : k \in 0..n} :
                      \A i, j \in 1..Len(its) : i # j => its[i][1] # its[j][1]}}

Flat == ListsOf(Scalars, MaxLen) \cup DictsOf(Scalars, MaxLen)

Items == Leaves \cup Flat
         \cup ListsOf(Leaves \cup Flat, MaxLen) \cup DictsOf(Leaves \cup Flat, MaxLen)

InitTerraform == Idle("terraform") /\ arg \in Items

ApplyTerraform ==
    /\ pc = "terraform"
    /\ ret' = terraform_str(arg)
    /\ pc' = "returned"
    /\ UNCHANGED <<arg, argv, ctx, ctx0, log, queries, stdout, exc, project, clusters, ci,
                   self_context, si, map_key, eps, map_key_with_iptype, ips, res>>

SpecTerraform == InitTerraform /\ [][ApplyTerraform]_vars

\* ---- the three sorts of lines 152-154 ----
Records ==
    {IP(s, r, a) : s \in {"epp", "epp-canary"},
                   r \in {"amer", "emea"},
                   a \in {ip_address("10.0.0.1").ip, ip_address("10.0.0.2").ip,
                          ip_address("2001:DB8::1").ip}}

RecordLists == UNION {[1..k -> Records] : k \in 0..MaxRecords}

InitSort == Idle("sort") /\ arg \in RecordLists

ApplySort ==
    /\ pc = "sort"
    /\ ret' = sorted3(arg)
    /\ pc' = "returned"
    /\ UNCHANGED <<arg, argv, ctx, ctx0, log, queries, stdout, exc, project, clusters, ci,
                   self_context, si, map_key, eps, map_key_with_iptype, ips, res>>

SpecSort == InitSort /\ [][ApplySort]_vars

(***************************************************************************)
(* The properties.                                                         *)
(***************************************************************************)
InScope == pc \in {"service", "address", "exit"}

Count(seq, Test(_)) == Cardinality({i \in 1..Len(seq) : Test(seq[i])})

IsCapture(cmd) == cmd = "kubectl config current-context"

IsRestore(cmd) == startswith(cmd, "kubectl config use-context ")

IsGet(cmd) == startswith(cmd, "kubectl get ")

\* ---- C1 ----
C1_Restored ==
    /\ Count(log, IsCapture) = ci
    /\ Count(log, IsRestore) = (IF InScope THEN ci - 1 ELSE ci)
    /\ \A i \in 1..Len(log) :
          IsRestore(log[i]) => log[i] = "kubectl config use-context " \o ctx0 \o "\n"
    /\ ~InScope => ctx = ctx0

C1_Propagates ==
    (pc = "exit") =>
        /\ exc' = exc
        /\ pc' = (IF exc = "none" THEN "loop" ELSE "aborted")
        /\ log' = Append(log, "kubectl config use-context " \o ctx0 \o "\n")
        /\ ctx' = ctx0

\* C1: whichever way the block of a cluster is left (its end, the continue of
\* a cluster outside the US, an exception), `kubectl config use-context` is
\* run exactly once with the context captured on entry, the active context
\* is then the one before the scope, and an exception in flight goes on
\* unchanged after the restoration.
C1_ContextRestored == [](C1_Restored) /\ [][C1_Propagates]_vars

\* two scopes are closed, the first by the continue or at its end, the second
\* by an exception, and the context is the one the run started with
C1_Witness ==
    /\ pc = "aborted"
    /\ ci = 2
    /\ exc = "ValueError"
    /\ Count(log, IsRestore) = 2
    /\ ctx = ctx0

\* ---- C2 ----
\* C2 (as claimed): no endpoint query that returns nothing fails the run: a
\* run never aborts on a query whose result is empty.
C2_EmptyTolerated ==
    (pc = "aborted" /\ queries # <<>>) => split(queries[Len(queries)].content) # <<>>

\* ---- C3 ----
ServiceRank(service) ==
    CASE service = "epp" -> 1
      [] service = "epp-canary" -> 2
      [] service = "whois" -> 3
      [] service = "whois-canary" -> 4

SymbolRank(symbol) ==
    CASE symbol = "amer" -> 1
      [] symbol = "apac" -> 2
      [] symbol = "emea" -> 3
      [] symbol = "other" -> 4

\* service, then IPv4 before IPv6, then region symbol
RecordKey(r) == <<ServiceRank(r.service), IF r.address.version = 6 THEN 1 ELSE 0,
                  SymbolRank(r.region)>>

KeyLeq(a, b) ==
    \/ a[1] < b[1]
    \/ a[1] = b[1] /\ a[2] < b[2]
    \/ a[1] = b[1] /\ a[2] = b[2] /\ a[3] <= b[3]

Bijections(n) == {p \in [1..n -> 1..n] : \A i, j \in 1..n : i # j => p[i] # p[j]}

\* C3: the list after the three sorts is a permutation of the collected
\* records ordered by service name, then IPv4 before IPv6, then region
\* symbol, and records equal on the three keys keep their collection order.
C3_SortedStable ==
    (pc = "returned") =>
        /\ Len(ret) = Len(arg)
        /\ \A i, j \in 1..Len(ret) : i < j => KeyLeq(RecordKey(ret[i]), RecordKey(ret[j]))
        /\ \E p \in Bijections(Len(arg)) :
              /\ \A i \in 1..Len(arg) : ret[i] = arg[p[i]]
              /\ \A i, j \in 1..Len(arg) :
                    (i < j /\ RecordKey(ret[i]) = RecordKey(ret[j])) => p[i] < p[j]

\* the three records of the specification's example, in the order given and
\* in the order expected
C3_Witness ==
    /\ pc = "returned"
    /\ Len(arg) = 3
    /\ <<arg[1].service, arg[1].address.version, arg[1].region>> = <<"epp-canary", 6, "amer">>
    /\ <<arg[2].service, arg[2].address.version, arg[2].region>> = <<"epp", 4, "emea">>
    /\ <<arg[3].service, arg[3].address.version, arg[3].region>> = <<"epp", 4, "amer">>
    /\ ret = <<arg[3], arg[2], arg[1]>>

\* ---- C7 ----
HasPrefix(s, prefix) == \E n \in 0..Len(s) : SubSeq(s, 1, n) = prefix

\* C7: get_region_symbol returns one of the four symbols, by the first of the
\* prefixes "us", "europe", "asia" the region starts with, case sensitively,
\* and "other" when it starts with none of them.
C7_RegionSymbol ==
    (pc = "returned") =>
        /\ ret \in {"amer", "emea", "apac", "other"}
        /\ ret = "amer" <=> HasPrefix(arg, "us")
        /\ ret = "emea" <=> HasPrefix(arg, "europe")
        /\ ret = "apac" <=> HasPrefix(arg, "asia")
        /\ arg = "useurope" => ret = "amer"
        /\ arg = "europeus" => ret = "emea"
        /\ arg \in {"", "u", "US", "Europe", "eu", "-east1us"} => ret = "other"

\* a region that starts with "us" and holds "europe" as well
C7_Witness == pc = "returned" /\ arg = "useurope" /\ ret = "amer"

\* ---- C8 ----
\* the text of a scalar
C8_Text(item) == IF item.t = "str" THEN item.s ELSE "2001:db8::1"

\* the rendering the claim describes
RECURSIVE C8_Render(_)
C8_Render(item) ==
    IF item.t = "dict"
    THEN "{" \o "\n"
         \o concat([i \in 1..Len(item.items) |->
                       item.items[i][1] \o " = " \o C8_Render(item.items[i][2]) \o "\n"])
         \o "}"
    ELSE IF item.t = "list"
    THEN "[" \o join(", ", [i \in 1..Len(item.items) |-> C8_Render(item.items[i])]) \o "]"
    ELSE "\"" \o C8_Text(item) \o "\""

\* C8: terraform_str renders a mapping as `{`, a line break, one line
\* `key = value` per entry in iteration order, `}`; a sequence as `[`, its
\* elements joined by comma and space, `]`; any other value as its text in
\* double quotes.
C8_Rendering ==
    (pc = "returned") =>
        /\ ret = C8_Render(arg)
        /\ arg = List(<<>>) => ret = "[]"
        /\ arg = [t |-> "dict", items |-> << <<"a", List(<<Str("1"), Str("2")>>)>> >>]
              => ret = "{\na = [\"1\", \"2\"]\n}"

\* the example of the specification: {"a": ["1", "2"]}
C8_Witness ==
    /\ pc = "returned"
    /\ arg = [t |-> "dict", items |-> << <<"a", List(<<Str("1"), Str("2")>>)>> >>]
    /\ ret = "{\na = [\"1\", \"2\"]\n}"

\* ---- C4 ----
CompositeKey(service, version) ==
    (CASE service = "whois" -> "whois"
       [] service = "whois-canary" -> "whois_canary"
       [] service = "epp" -> "epp"
       [] service = "epp-canary" -> "epp_canary")
    \o (IF version = 6 THEN "_ipv6" ELSE "_ipv4")

CompositeKeys ==
    {CompositeKey(Services[n], v) : n \in 1..4, v \in {4, 6}}

\* the records collected for a key and a symbol, in collection order
SlotRecords(key, symbol) ==
    {i \in 1..Len(ips) :
        /\ CompositeKey(ips[i].service, ips[i].address.version) = key
        /\ ips[i].region = symbol}

LastOf(S) == CHOOSE i \in S : \A j \in S : j <= i

\* C4: every composite-key entry maps each symbol it holds to a sequence of
\* exactly one address, the last one processed for that service, version and
\* symbol; the earlier ones are gone.
C4_SingletonLastWins ==
    /\ \A n \in 1..Len(res.items) :
          LET key   == res.items[n][1]
              entry == res.items[n][2]
          IN  key # "https_ip" =>
                /\ entry.t = "dict"
                /\ \A m \in 1..Len(entry.items) :
                      LET symbol == entry.items[m][1]
                          slot   == entry.items[m][2]
                      IN  /\ slot.t = "list"
                          /\ Len(slot.items) = 1
                          /\ SlotRecords(key, symbol) # {}
                          /\ slot.items[1] = ips[LastOf(SlotRecords(key, symbol))].address
    /\ \A i \in 1..Len(ips) :
          LET key == CompositeKey(ips[i].service, ips[i].address.version)
          IN  dict_has(res, key) /\ dict_has(dict_get(res, key), ips[i].region)

\* two addresses of one service, version and symbol were processed, and the
\* entry holds the second only
C4_Witness ==
    /\ Len(ips) = 2
    /\ ips[1].service = ips[2].service
    /\ ips[1].region = ips[2].region
    /\ ips[1].address.version = ips[2].address.version
    /\ ips[1].address # ips[2].address
    /\ dict_get(dict_get(res, CompositeKey(ips[1].service, ips[1].address.version)),
                ips[1].region) = List(<<ips[2].address>>)

\* ---- C5 ----
IsGateway(q) == q.resource = "gateways.gateway.networking.k8s.io"

GatewayQueries == {i \in 1..Len(queries) : IsGateway(queries[i])}

USClusters == {k \in 1..Len(clusters.items) : HasPrefix(clusters.items[k][2], "us")}

\* the switch to a cluster that comes last before command i of the log
ClusterAt(i) ==
    LET switches == {j \in 1..i : startswith(log[j], "gcloud container fleet")}
    IN  Count(SubSeq(log, 1, LastOf(switches)), IsCapture)

IsGatewayCmd(cmd) == startswith(cmd, "kubectl get gateways.gateway.networking.k8s.io/nomulus ")

\* C5: after a run that completes, https_ip is there exactly when a cluster
\* is in a region that starts with "us", and it is the first address the
\* gateway query of the last such cluster returned; a cluster elsewhere
\* issues no gateway query and never writes the key.
C5_HttpsIp ==
    /\ \A i \in 1..Len(log) :
          IsGatewayCmd(log[i]) => ClusterAt(i) \in USClusters
    /\ dict_has(res, "https_ip") => GatewayQueries # {}
    /\ (pc = "done") =>
          /\ dict_has(res, "https_ip") <=> USClusters # {}
          /\ Cardinality(GatewayQueries) = Cardinality(USClusters)
          /\ USClusters # {} =>
                dict_get(res, "https_ip")
                   = ip_address(split(queries[LastOf(GatewayQueries)].content)[1]).ip

\* two US clusters whose gateways answered differently: the second answer,
\* and of its two addresses the first, is the one kept
C5_Witness ==
    /\ pc = "done"
    /\ Cardinality(USClusters) = 2
    /\ queries[LastOf(GatewayQueries)].content = "34.1.1.1 34.2.2.2"
    /\ \E i \in GatewayQueries : queries[i].content = "2600:1901::3"
    /\ ip_str(dict_get(res, "https_ip")) = "34.1.1.1"

\* ---- C6 ----
EndsWith(s, suffix) == Len(s) >= Len(suffix) /\ SubSeq(s, Len(s) - Len(suffix) + 1, Len(s)) = suffix

\* C6: an address goes under the service name with underscores for hyphens
\* followed by _ipv4 or _ipv6 by its version alone, and the record appended
\* for it agrees with the slot written: the same version, address and symbol.
C6_KeyAgreesWithRecord ==
    /\ \A n \in 1..Len(res.items) : res.items[n][1] \in CompositeKeys \cup {"https_ip"}
    /\ \A i \in 1..Len(ips) :
          LET r   == ips[i]
              key == CompositeKey(r.service, r.address.version)
          IN  /\ r.region \in {"amer", "emea", "apac", "other"}
              /\ dict_has(res, key)
              /\ dict_has(dict_get(res, key), r.region)
              /\ dict_get(dict_get(res, key), r.region).items[1].version = r.address.version
              /\ is_ipv6(r) <=> EndsWith(key, "_ipv6")
    /\ (ips # <<>> /\ pc # "done") =>
          LET r == ips[Len(ips)]
          IN  /\ map_key_with_iptype = CompositeKey(r.service, r.address.version)
              /\ is_ipv6(r) <=> EndsWith(map_key_with_iptype, "_ipv6")
              /\ dict_get(dict_get(res, map_key_with_iptype), r.region) = List(<<r.address>>)

\* an IPv6 address of whois-canary has just been inserted
C6_Witness ==
    /\ pc # "done"
    /\ ips # <<>>
    /\ ips[Len(ips)].service = "whois-canary"
    /\ is_ipv6(ips[Len(ips)])
    /\ map_key_with_iptype = "whois_canary_ipv6"
    /\ dict_has(res, "whois_canary_ipv6")

\* ---- C9 ----
IsProgressLine(line) == startswith(line, "Project: ") \/ startswith(line, "nomulus: ")

C9_Aborted ==
    /\ exc # "none" => pc \in {"exit", "aborted"}
    /\ (pc = "aborted") =>
          /\ exc \in {"ValueError", "JSONDecodeError", "IndexError"}
          /\ \A i \in 1..Len(stdout) : IsProgressLine(stdout[i])
          /\ Count(log, IsRestore) = Count(log, IsCapture)
          /\ ctx = ctx0

C9_NoStepAfter ==
    /\ pc # "aborted"
    /\ exc # "none" => (pc' = "aborted" /\ queries' = queries /\ ci' = ci)
    /\ Len(stdout') >= Len(stdout)
    /\ SubSeq(stdout', 1, Len(stdout)) = stdout
    /\ exc # "none" => stdout' = stdout

\* C9: an error while the clusters are enumerated, a query's output is taken
\* apart or an address is parsed ends the run: no later service or cluster
\* is queried, neither listing is printed, what was printed stays, and the
\* context is the restored one.
C9_FatalErrors == [](C9_Aborted) /\ [][C9_NoStepAfter]_vars

\* the run ended on an address of the first of two clusters that does not
\* parse, with services left to query
C9_Witness ==
    /\ pc = "aborted"
    /\ exc = "ValueError"
    /\ ci = 1
    /\ Len(clusters.items) = 2
    /\ si < 4
    /\ stdout = <<"Project: proj">>
    /\ ctx = ctx0

\* ---- C10 ----
ServiceQueryCmds ==
    << "kubectl get services/whois -o jsonpath={.status.loadBalancer.ingress[*].ip}",
       "kubectl get services/whois-canary -o jsonpath={.status.loadBalancer.ingress[*].ip}",
       "kubectl get services/epp -o jsonpath={.status.loadBalancer.ingress[*].ip}",
       "kubectl get services/epp-canary -o jsonpath={.status.loadBalancer.ingress[*].ip}" >>

GatewayQueryCmd ==
    "kubectl get gateways.gateway.networking.k8s.io/nomulus -o jsonpath={.status.addresses[*].value}"

\* the queries of the k-th cluster
QueryCmds(k) ==
    ServiceQueryCmds \o (IF k \in USClusters THEN <<GatewayQueryCmd>> ELSE <<>>)

\* the commands of the scope of the k-th cluster after n of its queries
ScopeCmds(k, n, closed) ==
    << "kubectl config current-context",
       "gcloud container fleet memberships get-credentials " \o clusters.items[k][1]
          \o " --project proj" >>
    \o SubSeq(QueryCmds(k), 1, n)
    \o (IF closed THEN <<"kubectl config use-context " \o ctx0 \o "\n">> ELSE <<>>)

RECURSIVE WholeScopes(_)
WholeScopes(k) ==
    IF k = 0 THEN <<>>
    ELSE WholeScopes(k - 1) \o ScopeCmds(k, Len(QueryCmds(k)), TRUE)

\* C10: one cluster at a time, and for each cluster: capture the context,
\* switch to the cluster, query whois, whois-canary, epp, epp-canary, query
\* the gateway (US only), restore the context; so every endpoint query lies
\* between its cluster's switch and its cluster's restore.
C10_CommandOrder ==
    /\ Len(queries) = Count(log, IsGet)
    /\ (log = <<>>) => pc \in {"start", "get_clusters", "aborted"}
    /\ (log # <<>>) =>
          /\ log[1] = "gcloud container clusters list --project proj --format=json"
          /\ IF ci = 0 THEN Len(log) = 1
             ELSE \E n \in 0..Len(QueryCmds(ci)) :
                     /\ log = <<log[1]>> \o WholeScopes(ci - 1) \o ScopeCmds(ci, n, ~InScope)
                     /\ (n < Len(QueryCmds(ci)) /\ ~InScope) => pc = "aborted"
                     /\ (pc = "exit" /\ exc = "none") => n = Len(QueryCmds(ci))

\* a run of a US cluster and a cluster elsewhere that completes: sixteen
\* commands
C10_Witness ==
    /\ pc = "done"
    /\ ci = 2
    /\ Cardinality(USClusters) = 1
    /\ Len(log) = 16

====
